---------------------------- MODULE Spec2Model ----------------------------
(***************************************************************************)
(* Model of the Notion -> Kit e-mail automation:                           *)
(*   scripts/send_emails_notion_to_kit.py      (render, resolve, send)     *)
(*   scripts/sync_email_stats_kit_to_notion.py (stats normalisation)       *)
(*                                                                         *)
(* Five specifications share the module.  SpecRender runs blocks_to_html   *)
(* over a block sequence, SpecRichText runs rich_text_to_html over a span  *)
(* sequence, SpecSend runs the scheduled batch job main() /                *)
(* process_email() against a document store and the broadcast provider,   *)
(* SpecStats runs the stats job main() / sync_email_stats(), and SpecBatch *)
(* runs the for-loop of either job under fairness.  Each specification     *)
(* holds the variables it does not use at their idle values.               *)
(*                                                                         *)
(* A Python string that is HTML is modelled as a sequence of tokens (tags  *)
(* and text), the empty string as the empty sequence.                      *)
(***************************************************************************)
EXTENDS Integers, Sequences, FiniteSets, TLC

VARIABLES
    \* ---- blocks_to_html (render pass) ----
    blocks,             \* the document's child blocks, in document order
    idx,                \* number of blocks the for-loop has consumed
    html_parts,         \* list of emitted strings
    part_src,           \* history: for each part, the loop iteration that appended it
    in_bullet_list,
    in_numbered_list,
    image_counter,      \* image_counter['count']
    uploads,            \* history: image relay calls [block, count, ok]
    rpc                 \* "idle" | "loop" | "done"

renderVars == <<blocks, idx, html_parts, part_src, in_bullet_list,
                in_numbered_list, image_counter, uploads, rpc>>

VARIABLES
    \* ---- send path: configuration, document store, provider, batch job ----
    TEST_MODE,          \* os.environ TEST_MODE == 'true'
    TEST_EMAIL,         \* os.environ TEST_EMAIL
    pages,              \* document store: page id -> properties and child blocks
    status,             \* document store: page id -> "E-mail Status"
    kit_broadcast_id,   \* document store: page id -> "Kit Broadcast ID" (0: empty)
    now,                \* the clock, in ticks
    created,            \* provider: page id -> broadcasts created from the page
    unpatched,          \* history: page id -> a broadcast was created and the
                        \*          patch-back of the page failed
    completed,          \* history: page id -> the id of the broadcast whose
                        \*          creation and patch-back both succeeded (0: none)
    requests,           \* history: creation requests issued by the running main()
    ready_emails,       \* main(): the query result being processed
    cursor,             \* main(): position of the for-loop in ready_emails
    success_count,
    failure_count,
    pc,                 \* main(): "idle" (not running) | "loop"
    runs,               \* scheduled invocations of main() so far
    processed,          \* history: the pages process_email was called for by
                        \*          the running main(), in call order
    last                \* history: the latest process_email call of the running main()

sendVars == <<TEST_MODE, TEST_EMAIL, pages, status, kit_broadcast_id, now, created,
              unpatched, completed, requests, ready_emails, cursor, success_count, failure_count, pc, runs, processed, last>>

VARIABLES
    \* ---- stats path: main() / sync_email_stats of the stats job ----
    sent_pages,         \* store: the "Kit Broadcast ID" of the pages matching
                        \*        the query for sent emails ("" when the text is empty)
    kit_stats,          \* provider: the stats of broadcast "b1"
    kit_clicks,         \* provider: the per-link clicks of broadcast "b1"
    sent_emails,        \* main(): the query result being processed
    sync_cursor,        \* main(): position of the for-loop in sent_emails
    sync_success_count,
    sync_failure_count,
    synced,             \* history: the positions sync_email_stats was called for
    sync_page,          \* the latest call: the page's "Kit Broadcast ID"
    notion_patches,     \* history: property patches sent by the latest call
    sync_call,          \* history: the latest call's content_clicks and result
    spc                 \* "idle" (not running) | "ready" | "loop" | "done"

statsVars == <<sent_pages, kit_stats, kit_clicks, sent_emails, sync_cursor,
               sync_success_count, sync_failure_count, synced, sync_page,
               notion_patches, sync_call, spc>>

VARIABLES
    \* ---- rich_text_to_html over one rich text array ----
    rt_array,           \* the argument rich_text_array
    rt_pos,             \* position of the for-loop
    rt_html,            \* the local "html"
    rtpc                \* "idle" (not running) | "loop" | "done"

richVars == <<rt_array, rt_pos, rt_html, rtpc>>

vars == <<renderVars, sendVars, statsVars, richVars>>

---------------------------------------------------------------------------
(* Bounds of the model *)

MaxBlocks == 4

\* scheduled invocations of main() in one behaviour
MaxRuns == 2

\* clock resolution: ticks per second (send_at is written in whole seconds)
TicksPerSecond == 2

\* ticks the clock advances in one behaviour
MaxElapsed == 1

\* the largest count (recipients, opens, clicks) in a stats snapshot
MaxCount == 3

\* the most pages the query for sent emails returns
MaxSent == 2

\* the most spans of a rich text array
MaxSpans == 2

---------------------------------------------------------------------------
(* Program constants *)

\* round(..., 4): rates are stored to four decimal places
DecimalPlaces == 4

---------------------------------------------------------------------------
(* rich_text_to_html *)

NoAnnotations ==
    [bold |-> FALSE, italic |-> FALSE, strikethrough |-> FALSE,
     underline |-> FALSE, code |-> FALSE]

TextSpan(text, ann, href) ==
    [plain_text |-> text, annotations |-> ann, href |-> href]

\* f'<tag>{content}</tag>' when the flag is set
WrapIf(flag, open, close, content) ==
    IF flag THEN <<open>> \o content \o <<close>> ELSE content

Str(s) == IF s = "" THEN <<>> ELSE <<s>>

\* the formatting of lines 203-212 with the tests in the reverse order: code
\* is applied first and bold last
SpanToHtml_CodeFirst(text_obj) ==
    LET a  == text_obj.annotations
        c0 == IF text_obj.plain_text = "" THEN <<>> ELSE <<text_obj.plain_text>>
        c1 == WrapIf(a.code, "<code>", "</code>", c0)
        c2 == WrapIf(a.underline, "<u>", "</u>", c1)
        c3 == WrapIf(a.strikethrough, "<s>", "</s>", c2)
        c4 == WrapIf(a.italic, "<em>", "</em>", c3)
        c5 == WrapIf(a.bold, "<strong>", "</strong>", c4)
    IN  IF text_obj.href # ""
        THEN <<"<a href>", text_obj.href, "<a body>">> \o c5 \o <<"</a>">>
        ELSE c5

SpanToHtml(text_obj) ==
    LET a  == text_obj.annotations
        c0 == Str(text_obj.plain_text)
        c1 == WrapIf(a.bold, "<strong>", "</strong>", c0)
        c2 == WrapIf(a.italic, "<em>", "</em>", c1)
        c3 == WrapIf(a.strikethrough, "<s>", "</s>", c2)
        c4 == WrapIf(a.underline, "<u>", "</u>", c3)
        c5 == WrapIf(a.code, "<code>", "</code>", c4)
    IN  IF text_obj.href # ""
        THEN <<"<a href>", text_obj.href, "<a body>">> \o c5 \o <<"</a>">>
        ELSE c5

RECURSIVE rich_text_to_html(_)
rich_text_to_html(rich_text_array) ==
    IF rich_text_array = <<>> THEN <<>>
    ELSE SpanToHtml(Head(rich_text_array)) \o rich_text_to_html(Tail(rich_text_array))

---------------------------------------------------------------------------
(* block_to_html *)

Block(type, rich_text, url) == [type |-> type, rich_text |-> rich_text, url |-> url]

TextTag ==
    [paragraph |-> "p", heading_1 |-> "h1", heading_2 |-> "h2", heading_3 |-> "h3",
     bulleted_list_item |-> "li", numbered_list_item |-> "li", quote |-> "blockquote"]

TextTypes == DOMAIN TextTag

\* the image branch reaches the relay call: the block has a source URL
NeedsUpload(block) == block.type = "image" /\ block.url # ""

\* image_counter['count'] after the block
CounterAfter(block, count) == IF NeedsUpload(block) THEN count + 1 ELSE count

\* block_to_html without the "if cloudinary_url" test: the image markup is
\* returned around the relay's answer also when the answer is None
block_to_html_AnyAnswer(block, cloudinary_url) ==
    IF block.type \in DOMAIN TextTag THEN
        LET html == rich_text_to_html(block.rich_text)
            tag  == TextTag[block.type]
        IN  IF html # <<>>
            THEN <<"<" \o tag \o ">">> \o html \o <<"</" \o tag \o ">">>
            ELSE <<>>
    ELSE IF block.type = "image" THEN
        IF block.url # ""
        THEN <<"<p>", "<img src>", cloudinary_url, "</p>">>
        ELSE <<>>
    ELSE IF block.type = "divider" THEN <<"<hr>">>
    ELSE <<>>

\* The returned fragment; cloudinary_url is the relay's answer ("" for None)
\* and is read only when NeedsUpload(block).
block_to_html(block, cloudinary_url) ==
    IF block.type \in TextTypes THEN
        LET html == rich_text_to_html(block.rich_text)
            tag  == TextTag[block.type]
        IN  IF html # <<>>
            THEN <<"<" \o tag \o ">">> \o html \o <<"</" \o tag \o ">">>
            ELSE <<>>
    ELSE IF block.type = "image" THEN
        IF NeedsUpload(block) /\ cloudinary_url # ""
        THEN <<"<p>", "<img src>", cloudinary_url, "</p>">>
        ELSE <<>>
    ELSE IF block.type = "divider" THEN <<"<hr>">>
    ELSE <<>>

---------------------------------------------------------------------------
(* blocks_to_html *)

OpenUL  == <<"<ul>">>
CloseUL == <<"</ul>">>
OpenOL  == <<"<ol>">>
CloseOL == <<"</ol>">>

\* ListTransition with the else-branch ("Close any open lists") dropping
\* the close markers while still resetting the flags
ListTransition_NoCloseOnOther(block_type, in_b, in_n) ==
    IF block_type = "bulleted_list_item" THEN
        [parts |-> (IF ~in_b THEN <<OpenUL>> ELSE <<>>)
                   \o (IF in_n THEN <<CloseOL>> ELSE <<>>),
         in_bullet_list |-> TRUE, in_numbered_list |-> FALSE]
    ELSE IF block_type = "numbered_list_item" THEN
        [parts |-> (IF ~in_n THEN <<OpenOL>> ELSE <<>>)
                   \o (IF in_b THEN <<CloseUL>> ELSE <<>>),
         in_bullet_list |-> FALSE, in_numbered_list |-> TRUE]
    ELSE
        [parts |-> <<>>, in_bullet_list |-> FALSE, in_numbered_list |-> FALSE]

\* "Handle list transitions": the markers appended before the block's own
\* fragment, and the two flags afterwards.
ListTransition(block_type, in_b, in_n) ==
    IF block_type = "bulleted_list_item" THEN
        [parts |-> (IF ~in_b THEN <<OpenUL>> ELSE <<>>)
                   \o (IF in_n THEN <<CloseOL>> ELSE <<>>),
         in_bullet_list |-> TRUE, in_numbered_list |-> FALSE]
    ELSE IF block_type = "numbered_list_item" THEN
        [parts |-> (IF ~in_n THEN <<OpenOL>> ELSE <<>>)
                   \o (IF in_b THEN <<CloseUL>> ELSE <<>>),
         in_bullet_list |-> FALSE, in_numbered_list |-> TRUE]
    ELSE
        [parts |-> (IF in_b THEN <<CloseUL>> ELSE <<>>)
                   \o (IF in_n THEN <<CloseOL>> ELSE <<>>),
         in_bullet_list |-> FALSE, in_numbered_list |-> FALSE]

\* blocks_to_html without the terminal flush
FlushParts_Missing(in_b, in_n) == <<>>

\* "Close any remaining open lists"
FlushParts(in_b, in_n) ==
    (IF in_b THEN <<CloseUL>> ELSE <<>>) \o (IF in_n THEN <<CloseOL>> ELSE <<>>)

\* n copies of v
RECURSIVE Rep(_, _)
Rep(n, v) == IF n = 0 THEN <<>> ELSE <<v>> \o Rep(n - 1, v)

RenderInit ==
    [html_parts |-> <<>>, part_src |-> <<>>, in_bullet_list |-> FALSE,
     in_numbered_list |-> FALSE, count |-> 0, uploads |-> <<>>]

\* One iteration of "for block in blocks": st is the loop state, i the
\* 1-based position of block, cloudinary_url the relay's answer.
RenderStep(st, block, i, cloudinary_url) ==
    LET tr    == ListTransition(block.type, st.in_bullet_list, st.in_numbered_list)
        frag  == block_to_html(block, cloudinary_url)
        added == tr.parts \o (IF frag # <<>> THEN <<frag>> ELSE <<>>)
        cnt   == CounterAfter(block, st.count)
    IN  [html_parts       |-> st.html_parts \o added,
         part_src         |-> st.part_src \o Rep(Len(added), i),
         in_bullet_list   |-> tr.in_bullet_list,
         in_numbered_list |-> tr.in_numbered_list,
         count            |-> cnt,
         uploads          |-> IF NeedsUpload(block)
                              THEN Append(st.uploads,
                                          [block |-> i, count |-> cnt,
                                           ok |-> cloudinary_url # ""])
                              ELSE st.uploads]

\* The code after the loop
RenderFlush(st, n) ==
    LET added == FlushParts(st.in_bullet_list, st.in_numbered_list)
    IN  [st EXCEPT !.html_parts = @ \o added,
                   !.part_src = @ \o Rep(Len(added), n + 1),
                   !.in_bullet_list = st.in_bullet_list,
                   !.in_numbered_list = st.in_numbered_list]

\* '\n'.join(html_parts)
RECURSIVE JoinLines(_)
JoinLines(parts) ==
    IF parts = <<>> THEN <<>>
    ELSE IF Len(parts) = 1 THEN parts[1]
    ELSE parts[1] \o <<"\n">> \o JoinLines(Tail(parts))

\* The answers of the image relay: a durable URL, or None
RelayAnswers == {"cdn", ""}

\* blocks_to_html as process_email calls it: relay[i] is the relay's answer
\* for the image block at position i
RECURSIVE RenderFrom(_, _, _, _)
RenderFrom(st, blks, i, relay) ==
    IF i > Len(blks) THEN RenderFlush(st, Len(blks))
    ELSE RenderFrom(RenderStep(st, blks[i], i,
                               IF NeedsUpload(blks[i]) THEN relay[i] ELSE ""),
                    blks, i + 1, relay)

blocks_to_html(blks, relay) == RenderFrom(RenderInit, blks, 1, relay)

UploadPositions(blks) == {i \in DOMAIN blks : NeedsUpload(blks[i])}

---------------------------------------------------------------------------
(* External effects of one process_email call, in the order they are made *)

Eff(op, name, id) == [op |-> op, name |-> name, id |-> id]

---------------------------------------------------------------------------
(* process_email: the schedule checks (lines 505-540) *)

\* A "Publish Date" start value.  kind: "none" (no date), "date" (date only,
\* no 'T'), "aware" (date and time with a UTC offset), "naive" (date and
\* time without offset), "garbage" (holds a 'T' and does not parse).
\* local is the wall-clock reading in ticks, off the UTC offset in ticks.
PublishDate(kind, local, off) == [kind |-> kind, local |-> local, off |-> off]

\* 'T' in publish_date
HasTimeComponent(publish_date) == publish_date.kind \in {"aware", "naive", "garbage"}

\* the conversion to UTC dropping the offset
InstantUTC_IgnoresOffset(publish_date) == publish_date.local

\* publish_datetime.astimezone(timezone.utc), as an instant in ticks
InstantUTC(publish_date) == publish_date.local - publish_date.off

\* strftime('%Y-%m-%dT%H:%M:%SZ'): the UTC instant in whole seconds
FormatUTC(instant) == (instant \div TicksPerSecond) * TicksPerSecond

\* the schedule checks without "if publish_datetime < now" (lines 528-533)
ScheduleGate_NoPastCheck(publish_date, now_) ==
    IF publish_date.kind = "none" THEN
        [outcome |-> "skip_missing_time", ret |-> 507, send_at |-> 0]
    ELSE IF publish_date.kind = "date" THEN
        [outcome |-> "skip_date_only", ret |-> 515, send_at |-> 0]
    ELSE IF publish_date.kind \in {"garbage", "naive"} THEN
        [outcome |-> "skip_invalid", ret |-> 540, send_at |-> 0]
    ELSE
        [outcome |-> "proceed", ret |-> 0,
         send_at |-> FormatUTC(InstantUTC(publish_date))]

\* ret is the line of the return statement taken (0: none, the call goes on)
ScheduleGate(publish_date, now_) ==
    IF publish_date.kind = "none" THEN
        [outcome |-> "skip_missing_time", ret |-> 507, send_at |-> 0]
    ELSE IF ~HasTimeComponent(publish_date) THEN
        [outcome |-> "skip_date_only", ret |-> 515, send_at |-> 0]
    ELSE IF publish_date.kind = "garbage" THEN
        \* datetime.fromisoformat raises ValueError
        [outcome |-> "skip_invalid", ret |-> 540, send_at |-> 0]
    ELSE IF publish_date.kind = "naive" THEN
        \* publish_datetime < now raises TypeError (naive against aware)
        [outcome |-> "skip_invalid", ret |-> 540, send_at |-> 0]
    ELSE IF InstantUTC(publish_date) < now_ THEN
        [outcome |-> "skip_past", ret |-> 533, send_at |-> 0]
    ELSE
        [outcome |-> "proceed", ret |-> 0,
         send_at |-> FormatUTC(InstantUTC(publish_date))]

---------------------------------------------------------------------------
(* get_kit_tag_id, get_kit_segment_id *)

\* The provider's directory
KitTags == << [id |-> 11, name |-> "vip"] >>
KitSegments == << [id |-> 21, name |-> "News"], [id |-> 22, name |-> "Vip"] >>

\* str.lower() on the names of the model
Lower ==
    [Everyone |-> "everyone", VIP |-> "vip", Vip |-> "vip", vip |-> "vip",
     News |-> "news", Ghost |-> "ghost"]

\* the for-loop over the listing: the first entry whose name matches; 0 is None
RECURSIVE FindByName(_, _)
FindByName(items, wanted) ==
    IF items = <<>> THEN 0
    ELSE IF Lower[Head(items).name] = Lower[wanted] THEN Head(items).id
    ELSE FindByName(Tail(items), wanted)

\* call_ok: the GET succeeded (a RequestException returns None)
get_kit_tag_id(tag_name, call_ok) ==
    IF call_ok THEN FindByName(KitTags, tag_name) ELSE 0

get_kit_segment_id(segment_name, call_ok) ==
    IF call_ok THEN FindByName(KitSegments, segment_name) ELSE 0

---------------------------------------------------------------------------
(* create_kit_broadcast *)

\* the test without its second half
EveryoneSelected_EmptyOnly(segments) == segments = <<>>

\* not segments or "Everyone" in segments
EveryoneSelected(segments) ==
    segments = <<>> \/ \E i \in DOMAIN segments : segments[i] = "Everyone"

\* "for segment_name in segments" from position i on; tag_ok and seg_ok are
\* the positions whose tag / segment GET succeeds
RECURSIVE ResolveNames(_, _, _, _)
ResolveNames(segments, i, tag_ok, seg_ok) ==
    IF i > Len(segments)
    THEN [tag_ids |-> <<>>, segment_ids |-> <<>>, effects |-> <<>>]
    ELSE
        LET segment_name == segments[i]
            tag_id       == get_kit_tag_id(segment_name, i \in tag_ok)
            segment_id   == get_kit_segment_id(segment_name, i \in seg_ok)
            rest         == ResolveNames(segments, i + 1, tag_ok, seg_ok)
        IN  IF tag_id # 0 THEN
                [tag_ids     |-> <<tag_id>> \o rest.tag_ids,
                 segment_ids |-> rest.segment_ids,
                 effects     |-> <<Eff("tag_lookup", segment_name, tag_id)>>
                                 \o rest.effects]
            ELSE
                [tag_ids     |-> rest.tag_ids,
                 segment_ids |-> IF segment_id # 0
                                 THEN <<segment_id>> \o rest.segment_ids
                                 ELSE rest.segment_ids,
                 effects     |-> <<Eff("tag_lookup", segment_name, 0),
                                   Eff("segment_lookup", segment_name, segment_id)>>
                                 \o rest.effects]

\* create_kit_broadcast without the early return
NothingResolved_Never(tag_ids, segment_ids) == FALSE

\* "if not tag_ids and not segment_ids: return None"
NothingResolved(tag_ids, segment_ids) == tag_ids = <<>> /\ segment_ids = <<>>

\* recipient_settings: filtered is whether the key 'subscriber_filter' is
\* set; all is the "all" list of its one group ("any" and "none" are None)
NoFilter == [filtered |-> FALSE, all |-> <<>>]

\* the filter built without the two "if segment_ids:" / "if tag_ids:" tests
SubscriberFilter_KeepsEmpty(tag_ids, segment_ids) ==
    [filtered |-> TRUE,
     all |-> << [type |-> "segment", ids |-> segment_ids],
                [type |-> "tag", ids |-> tag_ids] >>]

SubscriberFilter(tag_ids, segment_ids) ==
    [filtered |-> TRUE,
     all |-> (IF segment_ids # <<>>
              THEN << [type |-> "segment", ids |-> segment_ids] >> ELSE <<>>)
             \o (IF tag_ids # <<>>
                 THEN << [type |-> "tag", ids |-> tag_ids] >> ELSE <<>>)]

\* The answers of POST /v4/broadcasts: created; an HTTP error answer; no
\* answer at all (the exception carries response None, and the handler's
\* e.response.text raises AttributeError out of create_kit_broadcast)
PostAnswers == {"created", "http_error", "no_response"}

\* segments_ is the audience, test_mode / test_email the configuration (read
\* for the two warnings of lines 333-335 only), next_id the id the provider
\* gives a created broadcast.
\* Result: broadcast_id (0: None), raised, the effects, and the payload
\* posted (none when the function returns before the POST).
create_kit_broadcast(html_body, publish_date_utc, segments, test_mode, test_email, tag_ok, seg_ok, post, next_id) ==
    LET res == IF EveryoneSelected(segments)
               THEN [tag_ids |-> <<>>, segment_ids |-> <<>>, effects |-> <<>>]
               ELSE ResolveNames(segments, 1, tag_ok, seg_ok)
        recipient_settings ==
            IF EveryoneSelected(segments) THEN NoFilter
            ELSE SubscriberFilter(res.tag_ids, res.segment_ids)
        payload == [content  |-> html_body,
                    send_at  |-> publish_date_utc,
                    filtered |-> recipient_settings.filtered,
                    all      |-> recipient_settings.all]
    IN  IF ~EveryoneSelected(segments) /\ NothingResolved(res.tag_ids, res.segment_ids)
        THEN [broadcast_id |-> 0, raised |-> FALSE, effects |-> res.effects,
              posted |-> <<>>]
        ELSE [broadcast_id |-> IF post = "created" THEN next_id ELSE 0,
              raised       |-> post = "no_response",
              effects      |-> Append(res.effects,
                                      Eff("create", "", IF post = "created"
                                                        THEN next_id ELSE 0)),
              posted       |-> <<payload>>]

---------------------------------------------------------------------------
(* process_email *)

\* The store lists the child blocks of a page in pages. A listing is what
\* the store does for one get_page_content call: sizes[k] is the number of
\* results in its k-th answer, fail_at the number of the GET that fails
\* (0: none does).
Listing(sizes, fail_at) == [sizes |-> sizes, fail_at |-> fail_at]

NoListing == Listing(<<>>, 0)

\* one GET of the listing: the cursor sent (0: none, the first page) and
\* whether the request succeeded
Get(start_cursor, ok) == [start_cursor |-> start_cursor, ok |-> ok]

\* a loop that returns after its first GET, whatever has_more says
FetchPages_FirstPageOnly(all, listing, k, start_cursor, blks, gets) ==
    IF k = listing.fail_at
    THEN [blocks |-> <<>>, ok |-> FALSE, gets |-> Append(gets, Get(start_cursor, FALSE))]
    ELSE [blocks |-> blks \o SubSeq(all, start_cursor + 1,
                                     start_cursor + listing.sizes[k]),
          ok     |-> TRUE,
          gets   |-> Append(gets, Get(start_cursor, TRUE))]

\* "while has_more": the k-th GET, sent with start_cursor, with blks the
\* blocks collected and gets the requests made so far. The cursor of the
\* store is the number of blocks listed before the page it stands for.
RECURSIVE FetchPages(_, _, _, _, _, _)
FetchPages(all, listing, k, start_cursor, blks, gets) ==
    IF k = listing.fail_at
    THEN [blocks |-> <<>>, ok |-> FALSE, gets |-> Append(gets, Get(start_cursor, FALSE))]
    ELSE
    LET results     == SubSeq(all, start_cursor + 1, start_cursor + listing.sizes[k])
        has_more    == start_cursor + listing.sizes[k] < Len(all)
        next_cursor == IF has_more THEN start_cursor + listing.sizes[k] ELSE 0
    IN  IF has_more
        THEN FetchPages(all, listing, k + 1, next_cursor, blks \o results,
                        Append(gets, Get(start_cursor, TRUE)))
        ELSE [blocks |-> blks \o results,
              ok     |-> TRUE,
              gets   |-> Append(gets, Get(start_cursor, TRUE))]

\* get_page_content: every child block, [] when a request fails
get_page_content(page, listing) == FetchPages(page.blocks, listing, 1, 0, <<>>, <<>>)

\* The environment of one call: listing (block listing), relay (answers of
\* the image relay by block position), tag_ok / seg_ok (positions of the
\* audience whose lookup GET succeeds), post (answer of the broadcast POST),
\* patch_ok (the PATCH of the page succeeds).
\*
\* Result: result (the value returned; FALSE with raised when an exception
\* leaves the call), ret (line of the return statement), the effects in
\* order (the block listing counts as one), the GETs of the block listing,
\* the payload posted, the broadcast id, and patched (the page now holds the
\* status and the id).
process_email(page, now_, test_mode, test_email, env, next_id) ==
    LET subject == IF page.sl1 # "" THEN page.sl1 ELSE page.name
        gate    == ScheduleGate(page.publish_date, now_)
        stop(ret, effects) ==
            [result |-> FALSE, raised |-> FALSE, ret |-> ret, effects |-> effects,
             gets |-> <<>>, posted |-> <<>>, broadcast_id |-> 0, patched |-> FALSE]
    IN  IF subject = "" THEN stop(503, <<>>)
        ELSE IF gate.outcome # "proceed" THEN stop(gate.ret, <<>>)
        ELSE
        \* The two calls whose result the lines after them read several times
        \* are the arguments of a function, which holds the value returned:
        \* got of get_page_content (line 546), made of create_kit_broadcast
        \* (lines 567-573).
        LET content == get_page_content(page, env.listing)
            after[got \in {content}] ==
                LET blks  == got.blocks
                    fetch == <<Eff("blocks_fetch", "", IF got.ok THEN 1 ELSE 0)>>
                IN  IF blks = <<>> THEN [stop(551, fetch) EXCEPT !.gets = got.gets]
                    ELSE
                    LET render  == blocks_to_html(blks, env.relay)
                        relayed == [k \in DOMAIN render.uploads |->
                                       Eff("image_relay", "",
                                           IF render.uploads[k].ok THEN 1 ELSE 0)]
                        broadcast ==
                            create_kit_broadcast(JoinLines(render.html_parts),
                                gate.send_at, page.segments, test_mode, test_email,
                                env.tag_ok, env.seg_ok, env.post, next_id)
                        updated[made \in {broadcast}] ==
                            LET before == fetch \o relayed \o made.effects
                            IN  IF made.raised THEN
                                    [result |-> FALSE, raised |-> TRUE, ret |-> 0,
                                     effects |-> before, gets |-> got.gets,
                                     posted |-> made.posted, broadcast_id |-> 0,
                                     patched |-> FALSE]
                                ELSE IF made.broadcast_id = 0 THEN
                                    [stop(577, before) EXCEPT !.gets = got.gets,
                                                              !.posted = made.posted]
                                ELSE
                                    [result       |-> env.patch_ok,
                                     raised       |-> FALSE,
                                     ret          |-> 588,
                                     effects      |-> Append(before,
                                                         Eff("patch", "",
                                                             IF env.patch_ok
                                                             THEN 1 ELSE 0)),
                                     gets         |-> got.gets,
                                     posted       |-> made.posted,
                                     broadcast_id |-> made.broadcast_id,
                                     patched      |-> env.patch_ok]
                    IN  updated[broadcast]
        IN  after[content]

---------------------------------------------------------------------------
(* The documents and the environment of the send path *)

RT_A == <<TextSpan("a", NoAnnotations, "")>>

PageIds == {1, 2}

\* the clock when the first run may start
StartTick == 2 * TicksPerSecond

Page(sl1, name, publish_date, segments, blks) ==
    [sl1 |-> sl1, name |-> name, publish_date |-> publish_date,
     segments |-> segments, blocks |-> blks]

\* a date and time that stays ahead of the clock, with a UTC offset
GoodDate == PublishDate("aware", StartTick + TicksPerSecond, 0 - TicksPerSecond)

DateChoices ==
    {PublishDate("none", 0, 0),
     PublishDate("date", StartTick + 2 * TicksPerSecond, 0),
     PublishDate("garbage", 0, 0),
     PublishDate("naive", StartTick + 2 * TicksPerSecond, 0),
     PublishDate("aware", StartTick - TicksPerSecond, 0),   \* one second before
     PublishDate("aware", StartTick, 0),
     PublishDate("aware", StartTick + 1, 0),                \* inside a second
     PublishDate("aware", StartTick + 2 * TicksPerSecond + 1, 0),
     GoodDate}

SegmentChoices ==
    {<<>>, <<"Everyone">>, <<"VIP">>, <<"News">>, <<"Ghost">>,
     <<"Ghost", "VIP">>, <<"News", "VIP">>, <<"Ghost", "Everyone">>}

OneParagraph == <<Block("paragraph", RT_A, "")>>

PageBlocks ==
    {<<>>, OneParagraph,
     <<Block("image", <<>>, "src"), Block("bulleted_list_item", RT_A, "")>>,
     <<Block("heading_1", RT_A, ""), Block("paragraph", RT_A, ""),
       Block("quote", RT_A, "")>>}

\* The first page: each stage of process_email sees every value of its own
\* input; a page stopped at one stage never reaches the inputs of the later
\* ones.
FirstPageChoices ==
    {Page("", "", GoodDate, <<"VIP">>, OneParagraph)}
    \cup {Page("", "N", pd, <<"VIP">>, OneParagraph) : pd \in DateChoices}
    \cup {Page("S", "N", GoodDate, segs, OneParagraph) : segs \in SegmentChoices}
    \cup {Page("S", "", PublishDate("aware", StartTick + 1, 0), segs, OneParagraph) :
             segs \in {<<>>, <<"News">>}}
    \cup {Page("S", "", GoodDate, <<>>, blks) : blks \in PageBlocks}
    \cup {Page("S", "", GoodDate, <<"News">>,
                <<Block("image", <<>>, "src"), Block("paragraph", RT_A, "")>>)}

\* The second page, so that a batch holds more than one document
SecondPageChoices ==
    {Page("S", "N", GoodDate, <<>>, OneParagraph),
     Page("S", "N", GoodDate, <<"News">>, OneParagraph),
     Page("S", "N", GoodDate, <<"Ghost">>, OneParagraph)}

PageChoices(d) == IF d = 1 THEN FirstPageChoices ELSE SecondPageChoices

Env(listing, relay, tag_ok, seg_ok, post, patch_ok) ==
    [listing |-> listing, relay |-> relay, tag_ok |-> tag_ok, seg_ok |-> seg_ok,
     post |-> post, patch_ok |-> patch_ok]

\* the ways of cutting n > 0 results into answers that each hold at least one
RECURSIVE Cuts(_)
Cuts(n) ==
    IF n = 0 THEN {<<>>}
    ELSE UNION {{<<h>> \o t : t \in Cuts(n - h)} : h \in 1..n}

\* The listings of a page's child blocks: a page without blocks gets one
\* empty answer.
ListingChoices(blks) ==
    LET sizes == IF blks = <<>> THEN {<<0>>} ELSE Cuts(Len(blks))
    IN  UNION {{Listing(s, f) : f \in 0..Len(s)} : s \in sizes}

\* the outcomes of the POST and of the PATCH that follows a created broadcast
SendAnswers ==
    {<<"created", TRUE>>, <<"created", FALSE>>, <<"http_error", TRUE>>,
     <<"no_response", TRUE>>}

\* The environments that differ for the call: an outcome is drawn only for
\* the requests the call makes.
EnvChoices(page, now_) ==
    LET subject == IF page.sl1 # "" THEN page.sl1 ELSE page.name
        quiet(listing) == Env(listing, <<>>, {}, {}, "created", TRUE)
        listings == ListingChoices(page.blocks)
        \* the listings after which process_email returns at line 551
        empty    == {g \in listings : get_page_content(page, g).blocks = <<>>}
        named == IF EveryoneSelected(page.segments) THEN {}
                 ELSE DOMAIN page.segments
        \* the positions whose tag lookup gives None: the segment lookups made
        asked(tag_ok) ==
            {i \in named : get_kit_tag_id(page.segments[i], i \in tag_ok) = 0}
        lookups == UNION {{<<tag_ok, seg_ok>> : seg_ok \in SUBSET asked(tag_ok)} :
                             tag_ok \in SUBSET named}
        posts(l) ==
            IF named # {}
               /\ ResolveNames(page.segments, 1, l[1], l[2]).effects
                     \in Seq({e \in [op : {"tag_lookup", "segment_lookup"},
                                     name : DOMAIN Lower, id : {0}] : TRUE})
            THEN {<<"created", TRUE>>}
            ELSE SendAnswers
    IN  IF subject = "" \/ ScheduleGate(page.publish_date, now_).outcome # "proceed"
        THEN {quiet(NoListing)}
        ELSE {quiet(g) : g \in empty} \cup
             UNION {{Env(g, relay, l[1], l[2], a[1], a[2]) :
                        g \in listings \ empty,
                        relay \in [UploadPositions(page.blocks) -> RelayAnswers],
                        a \in posts(l)} : l \in lookups}

\* query_ready_emails: the pages whose status is "Ready to Send", in order
RECURSIVE ReadyFrom(_, _)
ReadyFrom(st, d) ==
    IF d \notin PageIds THEN <<>>
    ELSE (IF st[d] = "Ready to Send" THEN <<d>> ELSE <<>>) \o ReadyFrom(st, d + 1)

\* a query without the filter on "E-mail Status"
query_ready_emails_NoFilter(st, query_ok) ==
    IF query_ok THEN ReadyFrom([d \in PageIds |-> "Ready to Send"], 1) ELSE <<>>

query_ready_emails(st, query_ok) == IF query_ok THEN ReadyFrom(st, 1) ELSE <<>>

\* the id the provider gives the next broadcast it creates: one more than
\* the broadcasts it holds
RECURSIVE CountFrom(_, _)
CountFrom(cr, d) == IF d \notin PageIds THEN 0 ELSE cr[d] + CountFrom(cr, d + 1)

NextBroadcastId == CountFrom(created, 1) + 1

NoCall ==
    [page |-> 0, now |-> 0, env |-> Env(NoListing, <<>>, {}, {}, "created", TRUE),
     result |-> FALSE, raised |-> FALSE, ret |-> 0, effects |-> <<>>, gets |-> <<>>]

---------------------------------------------------------------------------
(* sync_email_stats_kit_to_notion.py *)

\* A rate of the store is a fraction with DecimalPlaces decimals, held as
\* the integer number of units of 10^-DecimalPlaces (0.1809 is 1809).  The
\* provider's open_rate is a percentage, held in thousandths of a percent
\* (18.09 is 18090).
FracScale == 10 ^ DecimalPlaces
PctScale == 1000

\* n / d (n >= 0, d > 0) to the nearest integer, ties to even
RoundHalfEven(n, d) ==
    LET q == n \div d
        r == n % d
    IN  IF 2 * r < d THEN q
        ELSE IF 2 * r > d THEN q + 1
        ELSE IF q % 2 = 0 THEN q ELSE q + 1

\* line 195 without the division by 100: the percentage is stored as it is
OpenRateChoices_Percent(kit_open_rate) ==
    {RoundHalfEven(kit_open_rate * FracScale, PctScale)}

\* round(kit_open_rate / 100, 4).  The decimal tie is not a tie of the
\* binary floats (18.095 is not a float): either neighbour can result.
OpenRateChoices(kit_open_rate) ==
    LET n == kit_open_rate * FracScale
        d == 100 * PctScale
    IN  IF 2 * (n % d) = d THEN {n \div d, n \div d + 1}
        ELSE {RoundHalfEven(n, d)}

\* CTOR with the "if total_opens > 0" test dropped: the division by zero
\* raises (-1 stands for the exception)
ClickToOpenRate_Unguarded(clicks_for_ctor, total_opens) ==
    IF total_opens = 0 THEN 0 - 1
    ELSE RoundHalfEven(clicks_for_ctor * FracScale, total_opens)

\* lines 207-212: round(((clicks / opens) * 100) / 100, 4), or 0.0
ClickToOpenRate(clicks_for_ctor, total_opens) ==
    IF total_opens > 0
    THEN RoundHalfEven(clicks_for_ctor * FracScale, total_opens)
    ELSE 0

\* the links of the model and the SYSTEM_LINK_PATTERNS test on them
ContentUrl == "https://shop.example/offer"
SystemUrl == "https://app.kit.com/unsubscribe"
IsSystemLink(url) == url = SystemUrl

Click(url, clicks) == [url |-> url, clicks |-> clicks]

\* content_clicks_count of get_kit_broadcast_clicks
RECURSIVE ContentClicks(_)
ContentClicks(clicks) ==
    IF clicks = <<>> THEN 0
    ELSE (IF IsSystemLink(Head(clicks).url) THEN 0 ELSE Head(clicks).clicks)
         + ContentClicks(Tail(clicks))

\* content_clicks as sync_email_stats passes it on; -1 is None (the GET
\* failed and get_kit_broadcast_clicks returned None)
NoClickData == 0 - 1

get_kit_broadcast_clicks(clicks, call_ok) ==
    IF call_ok THEN ContentClicks(clicks) ELSE NoClickData

\* lines 200-205 with "if content_clicks:" for "is not None": a count of
\* 0 is taken for a missing count
ClicksForCtor_ZeroIsMissing(content_clicks, total_clicks) ==
    IF content_clicks > 0 THEN content_clicks ELSE total_clicks

\* lines 200-205: clicks_for_ctor
ClicksForCtor(content_clicks, total_clicks) ==
    IF content_clicks # NoClickData THEN content_clicks ELSE total_clicks

\* the "properties" of the PATCH
update_notion_email_stats(stats, content_clicks, open_rate) ==
    LET recipients      == stats.recipients
        total_opens     == stats.emails_opened
        total_clicks    == stats.total_clicks
        clicks_for_ctor == ClicksForCtor(content_clicks, total_clicks)
    IN  [Recipients         |-> recipients,
         TotalOpens         |-> total_opens,
         TotalClicks        |-> total_clicks,
         OpenRate           |-> open_rate,
         ClickToOpenRate    |-> ClickToOpenRate(clicks_for_ctor, total_opens),
         clicks_for_ctor    |-> clicks_for_ctor]

\* The answers of GET /broadcasts/{id}/stats: the stats, an empty stats
\* object, an error status, no response at all (the handler of line 83 then
\* reads e.response.text of a response that is None and raises)
StatsAnswers == {"stats", "empty", "http_error", "no_response"}

\* The answers of the PATCH of the page (line 248 reads e.response.text as
\* line 83 does)
PatchAnswers == {"ok", "http_error", "no_response"}

\* lines 320-328 of the stats job, 623-633 of the send job: the counters
\* after one item, with the "except Exception" clause missing (the counters
\* of an item that raised are not reached)
CountItem_NoExcept(result, raised, successes, failures) ==
    IF raised THEN [success_count |-> successes, failure_count |-> failures]
    ELSE IF result THEN [success_count |-> successes + 1, failure_count |-> failures]
    ELSE [success_count |-> successes, failure_count |-> failures + 1]

\* lines 320-328 of the stats job, 623-633 of the send job: the counters
\* after one item of the for-loop
CountItem(result, raised, successes, failures) ==
    IF ~raised /\ result
    THEN [success_count |-> successes + 1, failure_count |-> failures]
    ELSE [success_count |-> successes, failure_count |-> failures + 1]

NoSync == [content_clicks |-> NoClickData, result |-> FALSE, raised |-> FALSE, ret |-> 0,
           clicks_ok |-> FALSE, patch_ok |-> FALSE]

---------------------------------------------------------------------------
(* Idle values: a specification holds the variables of the others here *)

RenderIdle ==
    /\ blocks = <<>>
    /\ idx = 0
    /\ html_parts = <<>>
    /\ part_src = <<>>
    /\ in_bullet_list = FALSE
    /\ in_numbered_list = FALSE
    /\ image_counter = 0
    /\ uploads = <<>>
    /\ rpc = "idle"

SendIdle ==
    /\ TEST_MODE = FALSE
    /\ TEST_EMAIL = ""
    /\ pages = <<>>
    /\ status = <<>>
    /\ kit_broadcast_id = <<>>
    /\ now = 0
    /\ created = <<>>
    /\ unpatched = <<>>
    /\ completed = <<>>
    /\ requests = <<>>
    /\ ready_emails = <<>>
    /\ cursor = 0
    /\ success_count = 0
    /\ failure_count = 0
    /\ pc = "off"
    /\ runs = 0
    /\ processed = <<>>
    /\ last = NoCall

RichIdle ==
    /\ rt_array = <<>>
    /\ rt_pos = 0
    /\ rt_html = <<>>
    /\ rtpc = "idle"

StatsIdle ==
    /\ sent_pages = <<>>
    /\ sent_emails = <<>>
    /\ sync_cursor = 0
    /\ sync_success_count = 0
    /\ sync_failure_count = 0
    /\ synced = <<>>
    /\ sync_page = ""
    /\ kit_stats = [recipients |-> 0, emails_opened |-> 0, total_clicks |-> 0,
                    open_rate |-> 0]
    /\ kit_clicks = <<>>
    /\ notion_patches = <<>>
    /\ sync_call = NoSync
    /\ spc = "idle"

---------------------------------------------------------------------------
(* SpecRender: blocks_to_html over a block sequence *)

\* Every branch of block_to_html; heading_2 and heading_3 differ from
\* heading_1 in the tag alone and are left to it.
BlockChoices ==
    {Block(t, RT_A, "") : t \in TextTypes \ {"heading_2", "heading_3"}}
    \cup {Block(t, <<>>, "") : t \in {"paragraph", "bulleted_list_item", "numbered_list_item"}}
    \cup {Block("image", <<>>, "src"), Block("image", <<>>, ""),
          Block("divider", <<>>, ""), Block("table", <<>>, "")}

RECURSIVE SeqsUpTo(_, _)
SeqsUpTo(S, n) ==
    IF n = 0 THEN {<<>>}
    ELSE LET shorter == SeqsUpTo(S, n - 1)
         IN  shorter \cup {Append(s, x) : s \in {t \in shorter : Len(t) = n - 1}, x \in S}

SetRenderState(st) ==
    /\ html_parts' = st.html_parts
    /\ part_src' = st.part_src
    /\ in_bullet_list' = st.in_bullet_list
    /\ in_numbered_list' = st.in_numbered_list
    /\ image_counter' = st.count
    /\ uploads' = st.uploads

CurrentRenderState ==
    [html_parts |-> html_parts, part_src |-> part_src,
     in_bullet_list |-> in_bullet_list, in_numbered_list |-> in_numbered_list,
     count |-> image_counter, uploads |-> uploads]

InitRender ==
    /\ blocks \in SeqsUpTo(BlockChoices, MaxBlocks)
    /\ idx = 0
    /\ html_parts = RenderInit.html_parts
    /\ part_src = RenderInit.part_src
    /\ in_bullet_list = RenderInit.in_bullet_list
    /\ in_numbered_list = RenderInit.in_numbered_list
    /\ image_counter = RenderInit.count
    /\ uploads = RenderInit.uploads
    /\ rpc = "loop"
    /\ SendIdle
    /\ StatsIdle
    /\ RichIdle

\* one iteration of the for-loop of blocks_to_html
RenderBlock ==
    /\ rpc = "loop"
    /\ idx < Len(blocks)
    /\ \E cloudinary_url \in RelayAnswers :
          /\ (~NeedsUpload(blocks[idx + 1]) => cloudinary_url = "")
          /\ SetRenderState(RenderStep(CurrentRenderState, blocks[idx + 1],
                                       idx + 1, cloudinary_url))
    /\ idx' = idx + 1
    /\ UNCHANGED <<blocks, rpc, sendVars, statsVars, richVars>>

\* the code after the loop, up to the return
RenderEnd ==
    /\ rpc = "loop"
    /\ idx = Len(blocks)
    /\ SetRenderState(RenderFlush(CurrentRenderState, Len(blocks)))
    /\ rpc' = "done"
    /\ UNCHANGED <<blocks, idx, sendVars, statsVars, richVars>>

NextRender == RenderBlock \/ RenderEnd

SpecRender == InitRender /\ [][NextRender]_vars

---------------------------------------------------------------------------
(* SpecSend: the scheduled batch job main() of send_emails_notion_to_kit *)

\* choices[d] is the set the page d is drawn from
InitSendWith(choices, modes) ==
    /\ TEST_MODE \in modes
    /\ TEST_EMAIL \in (IF TEST_MODE THEN {"", "me@example.com"} ELSE {""})
    /\ pages \in {f \in [PageIds -> FirstPageChoices \cup SecondPageChoices] :
                    \A d \in PageIds : f[d] \in choices[d]}
    /\ status = [d \in PageIds |-> "Ready to Send"]
    /\ kit_broadcast_id = [d \in PageIds |-> 0]
    /\ now = StartTick
    /\ created = [d \in PageIds |-> 0]
    /\ unpatched = [d \in PageIds |-> FALSE]
    /\ completed = [d \in PageIds |-> 0]
    /\ requests = <<>>
    /\ ready_emails = <<>>
    /\ cursor = 0
    /\ success_count = 0
    /\ failure_count = 0
    /\ pc = "idle"
    /\ runs = 0
    /\ processed = <<>>
    /\ last = NoCall

InitSend ==
    /\ InitSendWith([d \in PageIds |-> PageChoices(d)], BOOLEAN)
    /\ RenderIdle
    /\ StatsIdle
    /\ RichIdle

\* main() from its start to the first iteration of the for-loop (or to its
\* return when the query gives nothing)
StartRun ==
    /\ pc = "idle"
    /\ runs < MaxRuns
    /\ runs' = runs + 1
    /\ \E query_ok \in BOOLEAN :
          /\ ready_emails' = query_ready_emails(status, query_ok)
          /\ IF ready_emails' = <<>>
             THEN pc' = "idle" /\ cursor' = 0
             ELSE pc' = "loop" /\ cursor' = 1
    /\ success_count' = 0
    /\ failure_count' = 0
    /\ processed' = <<>>
    /\ UNCHANGED <<TEST_MODE, TEST_EMAIL, pages, status, kit_broadcast_id, now,
                   created, unpatched, completed, requests, last, renderVars,
                   statsVars, richVars>>

\* one iteration of "for email in ready_emails": try process_email(email)
ProcessEmail ==
    /\ pc = "loop"
    /\ cursor <= Len(ready_emails)
    /\ LET d == ready_emails[cursor] IN
       \E env \in EnvChoices(pages[d], now) :
          \E r \in {process_email(pages[d], now, TEST_MODE, TEST_EMAIL, env,
                                   NextBroadcastId)} :
              /\ requests' =
                    IF r.posted = <<>> THEN requests
                    ELSE Append(requests,
                                [page     |-> d,
                                 at       |-> now,
                                 send_at  |-> r.posted[1].send_at,
                                 filtered |-> r.posted[1].filtered,
                                 all      |-> r.posted[1].all,
                                 content  |-> r.posted[1].content,
                                 created  |-> r.broadcast_id # 0,
                                 patched  |-> r.patched,
                                 retry    |-> unpatched[d]])
              /\ created' = IF r.broadcast_id # 0
                            THEN [created EXCEPT ![d] = @ + 1]
                            ELSE created
              /\ unpatched' = IF r.broadcast_id # 0 /\ ~r.patched
                              THEN [unpatched EXCEPT ![d] = TRUE]
                              ELSE unpatched
              /\ completed' = IF r.broadcast_id # 0 /\ r.patched
                              THEN [completed EXCEPT ![d] = r.broadcast_id]
                              ELSE completed
              /\ status' = IF r.patched
                           THEN [status EXCEPT ![d] = "Scheduled & Sent"]
                           ELSE status
              /\ kit_broadcast_id' = IF r.patched
                                     THEN [kit_broadcast_id EXCEPT ![d] = r.broadcast_id]
                                     ELSE kit_broadcast_id
              /\ LET counts == CountItem(r.result, r.raised, success_count,
                                         failure_count)
                 IN  /\ success_count' = counts.success_count
                     /\ failure_count' = counts.failure_count
              /\ last' = [page |-> d, now |-> now, env |-> env, result |-> r.result,
                          raised |-> r.raised, ret |-> r.ret, effects |-> r.effects,
                          gets |-> r.gets]
    /\ processed' = Append(processed, ready_emails[cursor])
    /\ cursor' = cursor + 1
    /\ UNCHANGED <<TEST_MODE, TEST_EMAIL, pages, now, ready_emails, pc, runs,
                   renderVars, statsVars, richVars>>

\* the summary after the loop, and the return of main(): the process ends
\* and its variables are gone
EndRun ==
    /\ pc = "loop"
    /\ cursor > Len(ready_emails)
    /\ pc' = "idle"
    /\ ready_emails' = <<>>
    /\ cursor' = 0
    /\ success_count' = 0
    /\ failure_count' = 0
    /\ requests' = <<>>
    /\ processed' = <<>>
    /\ last' = NoCall
    /\ UNCHANGED <<TEST_MODE, TEST_EMAIL, pages, status, kit_broadcast_id, now,
                   created, unpatched, completed, runs, renderVars, statsVars,
                   richVars>>

\* time passes
Tick ==
    /\ pc \in {"idle", "loop"}
    /\ now < StartTick + MaxElapsed
    /\ now' = now + 1
    /\ UNCHANGED <<TEST_MODE, TEST_EMAIL, pages, status, kit_broadcast_id, created,
                   unpatched, completed, requests, ready_emails, cursor, success_count,
                   failure_count, pc, runs, processed, last, renderVars, statsVars, richVars>>

NextSend == StartRun \/ ProcessEmail \/ EndRun \/ Tick

SpecSend == InitSend /\ [][NextSend]_vars

---------------------------------------------------------------------------
(* SpecStats: the stats job main() of sync_email_stats_kit_to_notion *)

\* a snapshot of a sent campaign: 100 recipients, 20 opens, 5 clicks, 20.0 %
CampaignStats ==
    [recipients |-> 100, emails_opened |-> 20, total_clicks |-> 5,
     open_rate |-> 20 * PctScale]

ClickListChoices ==
    {<<>>}
    \cup {<<Click(u, c)>> : u \in {ContentUrl, SystemUrl}, c \in 0..MaxCount}
    \cup {<<Click(ContentUrl, c), Click(SystemUrl, MaxCount)>> : c \in 0..MaxCount}
    \cup {<<Click(ContentUrl, 1), Click(SystemUrl, 1), Click(ContentUrl, MaxCount)>>}

StatsChoices ==
    [recipients : 0..MaxCount, emails_opened : 0..MaxCount,
     total_clicks : 0..MaxCount,
     open_rate : {0, 18090, 18095, 33333, 100 * PctScale}]
    \cup {CampaignStats}

\* The provider's data is drawn from all the choices for a store with the
\* one sent page of broadcast "b1", and from two snapshots otherwise.
InitStatsFrom(wide) ==
    /\ sent_pages \in SeqsUpTo({"", "b1"}, MaxSent)
    /\ kit_stats \in (IF wide /\ sent_pages = <<"b1">> THEN StatsChoices
                      ELSE {CampaignStats,
                            [recipients |-> 1, emails_opened |-> 0,
                             total_clicks |-> 1, open_rate |-> 0]})
    /\ kit_clicks \in (IF wide /\ sent_pages = <<"b1">> THEN ClickListChoices
                       ELSE {<<>>, <<Click(ContentUrl, 1)>>})
    /\ sent_emails = <<>>
    /\ sync_cursor = 0
    /\ sync_success_count = 0
    /\ sync_failure_count = 0
    /\ synced = <<>>
    /\ sync_page = ""
    /\ notion_patches = <<>>
    /\ sync_call = NoSync
    /\ spc = "ready"

InitStats ==
    /\ InitStatsFrom(TRUE)
    /\ RenderIdle
    /\ SendIdle
    /\ RichIdle

\* query_sent_emails
query_sent_emails(store, query_ok) == IF query_ok THEN store ELSE <<>>

\* main() from its start to the first iteration of the for-loop (or to its
\* return when the query gives nothing)
StartSync ==
    /\ spc = "ready"
    /\ \E query_ok \in BOOLEAN :
          /\ sent_emails' = query_sent_emails(sent_pages, query_ok)
          /\ IF sent_emails' = <<>>
             THEN spc' = "done" /\ sync_cursor' = 0
             ELSE spc' = "loop" /\ sync_cursor' = 1
    /\ UNCHANGED <<sent_pages, kit_stats, kit_clicks, sync_success_count,
                   sync_failure_count, synced, sync_page, notion_patches,
                   sync_call, renderVars, sendVars, richVars>>

\* one iteration of "for email in sent_emails": try sync_email_stats(email)
SyncEmailStats ==
    /\ spc = "loop"
    /\ sync_cursor <= Len(sent_emails)
    /\ sync_page' = sent_emails[sync_cursor]
    /\ IF sync_page' = "" THEN
          /\ sync_call' = [NoSync EXCEPT !.ret = 263]
          /\ notion_patches' = <<>>
       ELSE
          \E answer \in StatsAnswers :
             IF answer = "no_response" THEN
                /\ sync_call' = [NoSync EXCEPT !.ret = 83, !.raised = TRUE]
                /\ notion_patches' = <<>>
             ELSE IF answer = "http_error" THEN
                /\ sync_call' = [NoSync EXCEPT !.ret = 272]
                /\ notion_patches' = <<>>
             ELSE IF answer = "empty" THEN
                /\ sync_call' = [NoSync EXCEPT !.ret = 276]
                /\ notion_patches' = <<>>
             ELSE
                \E clicks_ok \in BOOLEAN, patch \in PatchAnswers,
                   open_rate \in OpenRateChoices(kit_stats.open_rate) :
                   LET content_clicks == get_kit_broadcast_clicks(kit_clicks, clicks_ok)
                       payload == update_notion_email_stats(kit_stats, content_clicks,
                                                            open_rate)
                   IN  IF payload.ClickToOpenRate < 0 THEN
                          \* an exception leaves update_notion_email_stats
                          /\ sync_call' = [content_clicks |-> content_clicks,
                                           result |-> FALSE, raised |-> TRUE, ret |-> 0,
                                           clicks_ok |-> clicks_ok, patch_ok |-> FALSE]
                          /\ notion_patches' = <<>>
                       ELSE
                          /\ notion_patches' = <<payload>>
                          /\ sync_call' = [content_clicks |-> content_clicks,
                                           result |-> patch = "ok",
                                           raised |-> patch = "no_response",
                                           ret |-> IF patch = "no_response"
                                                   THEN 248 ELSE 292,
                                           clicks_ok |-> clicks_ok,
                                           patch_ok |-> patch = "ok"]
    /\ LET counts == CountItem(sync_call'.result, sync_call'.raised,
                               sync_success_count, sync_failure_count)
       IN  /\ sync_success_count' = counts.success_count
           /\ sync_failure_count' = counts.failure_count
    /\ synced' = Append(synced, sync_cursor)
    /\ sync_cursor' = sync_cursor + 1
    /\ UNCHANGED <<sent_pages, kit_stats, kit_clicks, sent_emails, spc,
                   renderVars, sendVars, richVars>>

\* the summary after the loop, and the return of main()
EndSync ==
    /\ spc = "loop"
    /\ sync_cursor > Len(sent_emails)
    /\ spc' = "done"
    /\ UNCHANGED <<sent_pages, kit_stats, kit_clicks, sent_emails, sync_cursor,
                   sync_success_count, sync_failure_count, synced, sync_page,
                   notion_patches, sync_call, renderVars, sendVars, richVars>>

NextStats == StartSync \/ SyncEmailStats \/ EndSync

SpecStats == InitStats /\ [][NextStats]_vars

---------------------------------------------------------------------------
(* SpecRichText: rich_text_to_html over a rich text array *)

Annotations(flags) ==
    [f \in DOMAIN NoAnnotations |-> f \in flags]

\* every set of style flags without a link, and a link around no flag, one
\* flag and all flags
SpanChoices ==
    {TextSpan("a", Annotations(flags), "") : flags \in SUBSET DOMAIN NoAnnotations}
    \cup {TextSpan("b", Annotations(flags), "https://x") :
             flags \in {{}, {"italic"}, DOMAIN NoAnnotations}}

InitRichText ==
    /\ rt_array \in SeqsUpTo(SpanChoices, MaxSpans)
    /\ rt_pos = 0
    /\ rt_html = <<>>
    /\ rtpc = "loop"
    /\ RenderIdle
    /\ SendIdle
    /\ StatsIdle

\* one iteration of "for text_obj in rich_text_array": html += content
RichSpan ==
    /\ rtpc = "loop"
    /\ rt_pos < Len(rt_array)
    /\ rt_html' = rt_html \o SpanToHtml(rt_array[rt_pos + 1])
    /\ rt_pos' = rt_pos + 1
    /\ UNCHANGED <<rt_array, rtpc, renderVars, sendVars, statsVars>>

\* return html
RichReturn ==
    /\ rtpc = "loop"
    /\ rt_pos = Len(rt_array)
    /\ rtpc' = "done"
    /\ UNCHANGED <<rt_array, rt_pos, rt_html, renderVars, sendVars, statsVars>>

NextRichText == RichSpan \/ RichReturn

SpecRichText == InitRichText /\ [][NextRichText]_vars

---------------------------------------------------------------------------
(* SpecBatch: the for-loop of either job, to its end *)

\* a page without a subject and a page that reaches the POST
BatchPageChoices(d) ==
    {Page("", "", GoodDate, <<"VIP">>, OneParagraph),
     Page("S", "N", GoodDate, <<>>, OneParagraph)}

InitBatch ==
    \/ InitSendWith([d \in PageIds |-> BatchPageChoices(d)], {FALSE}) /\ RenderIdle /\ StatsIdle /\ RichIdle
    \/ InitStatsFrom(FALSE) /\ RenderIdle /\ SendIdle /\ RichIdle

NextBatch == NextSend \/ NextStats

\* The interpreter goes on with a loop it has entered, and every call of an
\* iteration returns (with a value or an exception).
SpecBatch ==
    /\ InitBatch
    /\ [][NextBatch]_vars
    /\ WF_vars(ProcessEmail) /\ WF_vars(EndRun)
    /\ WF_vars(StartSync) /\ WF_vars(SyncEmailStats) /\ WF_vars(EndSync)

---------------------------------------------------------------------------
(* Properties of the render pass *)

ListKinds == {"ul", "ol"}
OpenOf  == [ul |-> OpenUL, ol |-> OpenOL]
CloseOf == [ul |-> CloseUL, ol |-> CloseOL]
ListType == [ul |-> "bulleted_list_item", ol |-> "numbered_list_item"]
IsListItem(block) == block.type \in {"bulleted_list_item", "numbered_list_item"}
IsMarker(part) == \E t \in ListKinds : part = OpenOf[t] \/ part = CloseOf[t]

\* occurrences of marker m among the first k parts
CountIn(parts, m, k) == Cardinality({p \in 1..k : parts[p] = m})

\* list containers of kind t open after the first k parts
Depth(parts, t, k) == CountIn(parts, OpenOf[t], k) - CountIn(parts, CloseOf[t], k)

\* C4: in the marker stream of blocks_to_html two open markers of one list
\* type always have a close marker of that type between them, and when the
\* pass has returned (terminal flush included) each type has as many close
\* markers as open markers.
C4_MarkersAlternate ==
    \A t \in ListKinds :
        /\ \A i, j \in DOMAIN html_parts :
              (i < j /\ html_parts[i] = OpenOf[t] /\ html_parts[j] = OpenOf[t])
                  => \E k \in (i + 1)..(j - 1) : html_parts[k] = CloseOf[t]
        /\ rpc = "done" =>
              CountIn(html_parts, OpenOf[t], Len(html_parts))
                  = CountIn(html_parts, CloseOf[t], Len(html_parts))

\* a pass that opened two bulleted lists and ended inside the second one,
\* closed by the terminal flush
C4_Witness ==
    /\ rpc = "done"
    /\ CountIn(html_parts, OpenUL, Len(html_parts)) = 2
    /\ in_bullet_list
    /\ html_parts[Len(html_parts)] = CloseUL
    /\ part_src[Len(part_src)] = Len(blocks) + 1

\* C5: when a list item of one kind arrives while a list of the other kind
\* is open, the close marker of the open list is emitted before the open
\* marker of the new one, so that no position of the output has more than
\* one list container open.
C5_CloseBeforeOpen ==
    /\ \A p \in 1..(Len(html_parts) - 1) :
          part_src[p] = part_src[p + 1] =>
              /\ ~(html_parts[p] = OpenUL /\ html_parts[p + 1] = CloseOL)
              /\ ~(html_parts[p] = OpenOL /\ html_parts[p + 1] = CloseUL)
    /\ \A k \in 0..Len(html_parts) :
          Depth(html_parts, "ul", k) + Depth(html_parts, "ol", k) <= 1

\* maximal runs <<i, j>> of list items of kind t that are followed by a
\* non-list block or by the end of the stream
RunsOf(t) ==
    {r \in (1..Len(blocks)) \X (1..Len(blocks)) :
        /\ r[1] <= r[2]
        /\ \A k \in r[1]..r[2] : blocks[k].type = ListType[t]
        /\ (r[1] = 1 \/ blocks[r[1] - 1].type # ListType[t])
        /\ (r[2] = Len(blocks) \/ ~IsListItem(blocks[r[2] + 1]))}

PartsFrom(lo, hi) == {p \in DOMAIN html_parts : part_src[p] \in lo..hi}
ItemFragment(block) == <<"<li>">> \o rich_text_to_html(block.rich_text) \o <<"</li>">>

C6_RunIsWrapped(t, i, j) ==
    LET n      == Len(blocks)
        opens  == {p \in PartsFrom(i, j) : html_parts[p] = OpenOf[t]}
        closes == {p \in PartsFrom(i, j + 1) : html_parts[p] = CloseOf[t]}
        items  == {p \in PartsFrom(i, j) : Head(html_parts[p]) = "<li>"}
    IN  \* exactly one open marker, appended for the first item and before
        \* every item of the run
        /\ Cardinality(opens) = 1
        /\ \A p \in opens : part_src[p] = i /\ \A q \in items : p < q
        \* the items with text, each once, in document order
        /\ \A k \in i..j :
              IF rich_text_to_html(blocks[k].rich_text) # <<>>
              THEN Cardinality({q \in items : part_src[q] = k
                                   /\ html_parts[q] = ItemFragment(blocks[k])}) = 1
                   /\ Cardinality({q \in items : part_src[q] = k}) = 1
              ELSE {q \in items : part_src[q] = k} = {}
        /\ \A p, q \in items : p < q => part_src[p] <= part_src[q]
        \* exactly one close marker, after the items and ahead of whatever
        \* the next block (or nothing, at end of stream) appends
        /\ Cardinality(closes) = 1
        /\ \A p \in closes :
              /\ part_src[p] = j + 1
              /\ \A q \in PartsFrom(j + 1, j + 1) : p <= q
              /\ j = n => p = Len(html_parts)

\* C6: in the returned output every run of list items of one kind that is
\* followed by a non-list block or by the end of the stream has exactly one
\* open marker ahead of its first item, its items in document order, and
\* the matching close marker ahead of the next block's fragment (last of
\* the output at end of stream); a non-list block's fragment is never
\* inside a list container.
C6_RunsAreWrapped ==
    rpc = "done" =>
        /\ \A t \in ListKinds : \A r \in RunsOf(t) : C6_RunIsWrapped(t, r[1], r[2])
        /\ \A p \in DOMAIN html_parts :
              (part_src[p] <= Len(blocks)
                 /\ ~IsListItem(blocks[part_src[p]])
                 /\ ~IsMarker(html_parts[p]))
                  => \A t \in ListKinds : Depth(html_parts, t, p) = 0

\* paragraph, two bulleted items, paragraph: a paragraph, an opened list
\* with two items, the closed list, the second paragraph
C6_Witness ==
    /\ rpc = "done"
    /\ Len(blocks) = 4
    /\ blocks[1].type = "paragraph" /\ blocks[4].type = "paragraph"
    /\ blocks[2].type = "bulleted_list_item" /\ blocks[3].type = "bulleted_list_item"
    /\ html_parts = << <<"<p>", "a", "</p>">>, OpenUL, <<"<li>", "a", "</li>">>,
                       <<"<li>", "a", "</li>">>, CloseUL, <<"<p>", "a", "</p>">> >>

---------------------------------------------------------------------------
(* Properties of the send path *)

IsLookup(e) == e.op \in {"tag_lookup", "segment_lookup"}
HasEffect(op) == \E k \in DOMAIN last.effects : last.effects[k].op = op

\* the page's audience is empty or holds "Everyone"
AudienceIsEveryone(d) ==
    pages[d].segments = <<>>
    \/ \E i \in DOMAIN pages[d].segments : pages[d].segments[i] = "Everyone"

\* the creation requests of the latest process_email call
LastRequests == {k \in DOMAIN requests : requests[k].page = last.page}

\* C1: with the test-mode flag active every broadcast creation request
\* targets the configured test e-mail alone, whatever the page's audience:
\* none is unfiltered, none is filtered by tag or segment, and none is
\* issued when no test e-mail is configured.
C1_TestModeOverrides ==
    TEST_MODE =>
        \A k \in DOMAIN requests :
            /\ TEST_EMAIL # ""
            /\ requests[k].filtered
            /\ \A c \in DOMAIN requests[k].all :
                  requests[k].all[c].type \notin {"tag", "segment"}

\* C2: a call for a page whose audience is named (not empty, no "Everyone")
\* and of whose names no lookup gave an id issues no creation request and
\* no patch and returns failure; and no request for a page with a named
\* audience goes out without a filter.
C2_UnresolvedAudienceRefused ==
    /\ (/\ last.page # 0
        /\ HasEffect("tag_lookup")
        /\ \A k \in DOMAIN last.effects :
              IsLookup(last.effects[k]) => last.effects[k].id = 0)
        => /\ ~HasEffect("create")
           /\ ~HasEffect("patch")
           /\ LastRequests = {}
           /\ ~last.result
           /\ status[last.page] = "Ready to Send"
    /\ \A k \in DOMAIN requests :
          ~AudienceIsEveryone(requests[k].page)
              => /\ requests[k].filtered
                 /\ requests[k].all # <<>>
                 /\ \A c \in DOMAIN requests[k].all : requests[k].all[c].ids # <<>>

\* a page naming "Ghost" and "VIP" whose lookups all came back empty (Ghost
\* is unknown, the GETs for VIP failed) was refused
C2_Witness ==
    /\ last.page # 0
    /\ pages[last.page].segments = <<"Ghost", "VIP">>
    /\ Len(last.effects) = 5
    /\ \A k \in 2..5 : IsLookup(last.effects[k]) /\ last.effects[k].id = 0
    /\ last.ret = 577

\* C3: no creation request is issued for a page for which a broadcast was
\* created earlier and whose patch-back then failed.
C3_NoRetryAfterPatchFailure ==
    \A k \in DOMAIN requests : ~requests[k].retry

\* the largest whole second not after instant t
WholeSecond(t) ==
    CHOOSE s \in 0..t : s % TicksPerSecond = 0 /\ s <= t /\ t < s + TicksPerSecond

ScheduledInstant(d) == pages[d].publish_date.local - pages[d].publish_date.off

\* C7 (as stated): a request is issued only for a schedule value that is
\* present, holds a time of day and is not earlier than now; an absent value
\* and a value one second before now give no request; send_at is exactly
\* the scheduled instant in UTC.
C7_SendAtExact ==
    \A k \in DOMAIN requests :
        /\ pages[requests[k].page].publish_date.kind = "aware"
        /\ ScheduledInstant(requests[k].page) >= requests[k].at
        /\ requests[k].send_at = ScheduledInstant(requests[k].page)

\* C7 (amended): as above, with send_at the scheduled instant in UTC cut to
\* whole seconds.
C7_SendOnlyDue ==
    /\ \A k \in DOMAIN requests :
          /\ pages[requests[k].page].publish_date.kind = "aware"
          /\ ScheduledInstant(requests[k].page) >= requests[k].at
          /\ requests[k].send_at = WholeSecond(ScheduledInstant(requests[k].page))
    /\ (/\ last.page # 0
        /\ \/ pages[last.page].publish_date.kind = "none"
           \/ /\ pages[last.page].publish_date.kind = "aware"
              /\ ScheduledInstant(last.page) = last.now - TicksPerSecond)
        => last.effects = <<>> /\ LastRequests = {} /\ ~last.result

\* in one run a broadcast was created for a schedule inside a second and
\* one for a schedule with a UTC offset
C7_Witness ==
    \E k, m \in DOMAIN requests :
        /\ requests[k].created
        /\ requests[k].send_at # ScheduledInstant(requests[k].page)
        /\ requests[m].created
        /\ pages[requests[m].page].publish_date.off # 0

\* C8: with test mode off, a call that reaches create_kit_broadcast for a
\* page whose audience is empty or holds "Everyone" issues its request with
\* no lookup and no filter, and every request without a filter is for such
\* a page; the other requests carry a subscriber filter.
C8_UnfilteredIffEveryone ==
    ~TEST_MODE =>
        /\ \A k \in DOMAIN requests :
              /\ ~requests[k].filtered <=> AudienceIsEveryone(requests[k].page)
              /\ requests[k].filtered => requests[k].all # <<>>
        /\ (/\ last.page # 0
            /\ AudienceIsEveryone(last.page)
            /\ \E k \in DOMAIN last.effects :
                  last.effects[k] = Eff("blocks_fetch", "", 1)
            /\ pages[last.page].blocks # <<>>)
            => /\ HasEffect("create")
               /\ \A k \in DOMAIN last.effects : ~IsLookup(last.effects[k])
               /\ \E k \in LastRequests : ~requests[k].filtered

\* in one run, a request without filter for an "Everyone" page and a
\* request with a filter
C8_Witness ==
    /\ ~TEST_MODE
    /\ \E k, m \in DOMAIN requests :
          /\ ~requests[k].filtered
          /\ \E i \in DOMAIN pages[requests[k].page].segments :
                pages[requests[k].page].segments[i] = "Everyone"
          /\ requests[m].filtered

IsTagLookup(e) == e.op = "tag_lookup"
IsSegmentLookup(e) == e.op = "segment_lookup"
Found(e) == e.id # 0
IdsOf(effects) == [k \in DOMAIN effects |-> effects[k].id]
NamesOf(effects) == [k \in DOMAIN effects |-> effects[k].name]

\* the listing holds an entry with this id whose name is the wanted name,
\* letter case apart
ListedAs(listing, id, wanted) ==
    \E k \in DOMAIN listing :
        listing[k].id = id /\ Lower[listing[k].name] = Lower[wanted]

\* C9: for a call that issues a request for a named audience: every name is
\* looked up as a tag, in order, and as a segment exactly when its tag
\* lookup gave nothing; an id found is that of a listed tag (segment) of
\* that name, letter case apart, and a listed tag is found when the lookup
\* request succeeds; the request carries one "all" group with at most one
\* tag condition, holding exactly the ids found as tags, and at most one
\* segment condition, holding exactly the ids found as segments; no
\* condition is empty, and names found nowhere are left out.
C9_FilterMatchesLookups ==
    (last.page # 0 /\ HasEffect("create") /\ ~AudienceIsEveryone(last.page)) =>
        LET segs   == pages[last.page].segments
            lk     == SelectSeq(last.effects, IsLookup)
            tagLk  == SelectSeq(lk, IsTagLookup)
            tagIds == IdsOf(SelectSeq(tagLk, Found))
            segIds == IdsOf(SelectSeq(SelectSeq(lk, IsSegmentLookup), Found))
            conds(r, type) == {c \in DOMAIN r.all : r.all[c].type = type}
        IN  /\ NamesOf(tagLk) = segs
            /\ \A p \in DOMAIN lk :
                  /\ IsSegmentLookup(lk[p])
                        => p > 1 /\ lk[p - 1] = Eff("tag_lookup", lk[p].name, 0)
                  /\ (IsTagLookup(lk[p]) /\ ~Found(lk[p]))
                        => /\ p < Len(lk)
                           /\ IsSegmentLookup(lk[p + 1])
                           /\ lk[p + 1].name = lk[p].name
                  /\ (IsTagLookup(lk[p]) /\ Found(lk[p]))
                        => ListedAs(KitTags, lk[p].id, lk[p].name)
                  /\ (IsSegmentLookup(lk[p]) /\ Found(lk[p]))
                        => ListedAs(KitSegments, lk[p].id, lk[p].name)
            /\ \A i \in DOMAIN segs :
                  (i \in last.env.tag_ok
                     /\ \E k \in DOMAIN KitTags : Lower[KitTags[k].name] = Lower[segs[i]])
                      => Found(tagLk[i])
            /\ LastRequests # {}
            /\ \A k \in LastRequests :
                  LET r == requests[k] IN
                  /\ r.filtered
                  /\ \A c \in DOMAIN r.all :
                        r.all[c].type \in {"tag", "segment"} /\ r.all[c].ids # <<>>
                  /\ Cardinality(conds(r, "tag")) = (IF tagIds = <<>> THEN 0 ELSE 1)
                  /\ Cardinality(conds(r, "segment")) = (IF segIds = <<>> THEN 0 ELSE 1)
                  /\ \A c \in conds(r, "tag") : r.all[c].ids = tagIds
                  /\ \A c \in conds(r, "segment") : r.all[c].ids = segIds

\* "Ghost" is found nowhere and left out, "VIP" is found as the tag "vip"
\* (the segment "Vip" is not asked for), and the broadcast is created for
\* the tag alone
C9_Witness ==
    /\ last.page # 0
    /\ pages[last.page].segments = <<"Ghost", "VIP">>
    /\ \E k \in LastRequests :
          /\ requests[k].created
          /\ requests[k].all = << [type |-> "tag", ids |-> <<11>>] >>

---------------------------------------------------------------------------
(* Properties of the stats path *)

\* the latest sync_email_stats call got the stats and went on to the click
\* fetch and the patch
StatsFetched == synced # <<>> /\ sync_call.ret \notin {263, 272, 276, 83}

\* C10 (as stated): the patch holds click_to_open_rate = clicks_for_ratio /
\* opens when opens > 0 and 0 when opens = 0, and with opens = 0 the call
\* raises nothing and still sends the patch.
C10_CtorIsExactRatio ==
    /\ \A k \in DOMAIN notion_patches :
          LET p == notion_patches[k] IN
          IF p.TotalOpens > 0
          THEN p.ClickToOpenRate * p.TotalOpens = p.clicks_for_ctor * FracScale
          ELSE p.ClickToOpenRate = 0
    /\ (StatsFetched /\ kit_stats.emails_opened = 0)
        => /\ Len(notion_patches) = 1
           /\ sync_call.raised => sync_call.ret = 248

\* C10 (amended): click_to_open_rate is clicks_for_ratio / opens rounded to
\* four decimal places when opens > 0 and 0 when opens = 0, the click count
\* being the content clicks when the click fetch gave them and total_clicks
\* otherwise; with opens = 0 the call raises nothing and still sends the
\* patch.
C10_CtorIsRoundedRatio ==
    /\ \A k \in DOMAIN notion_patches :
          LET p == notion_patches[k] IN
          /\ p.clicks_for_ctor = (IF sync_call.content_clicks # NoClickData
                                  THEN sync_call.content_clicks
                                  ELSE kit_stats.total_clicks)
          /\ p.TotalOpens = kit_stats.emails_opened
          /\ IF p.TotalOpens > 0
             THEN LET err == p.ClickToOpenRate * p.TotalOpens
                                - p.clicks_for_ctor * FracScale
                  IN  2 * err <= p.TotalOpens /\ 2 * err >= 0 - p.TotalOpens
             ELSE p.ClickToOpenRate = 0
    /\ (StatsFetched /\ kit_stats.emails_opened = 0)
        => /\ Len(notion_patches) = 1
           /\ sync_call.raised => sync_call.ret = 248

\* a snapshot without opens and with clicks was patched with a rate of 0
C10_Witness ==
    /\ StatsFetched
    /\ kit_stats.emails_opened = 0
    /\ kit_stats.total_clicks = MaxCount
    /\ sync_call.content_clicks > 0
    /\ Len(notion_patches) = 1
    /\ notion_patches[1].ClickToOpenRate = 0

\* C11: for every stats snapshot with non-negative counts the open_rate and
\* the click_to_open_rate of the patch are fractions in [0,1], also when the
\* click count used for the ratio is larger than the number of opens.
C11_RatesAreFractions ==
    \A k \in DOMAIN notion_patches :
       LET p == notion_patches[k] IN
       /\ 0 <= p.OpenRate /\ p.OpenRate <= FracScale
       /\ 0 <= p.ClickToOpenRate /\ p.ClickToOpenRate <= FracScale

\* the clicks of the links that are not system links
RECURSIVE NonSystemClicks(_)
NonSystemClicks(n) ==
    IF n = 0 THEN 0
    ELSE NonSystemClicks(n - 1)
         + (IF IsSystemLink(kit_clicks[n].url) THEN 0 ELSE kit_clicks[n].clicks)

\* C12: the click count used for the ratio is the content-click count (also
\* when it is 0) when the per-link click fetch succeeds and total_clicks when
\* it fails; a failed click fetch alone never fails the sync and the patch is
\* still issued.
C12_ClickSourceFallsBack ==
    StatsFetched =>
       /\ sync_call.raised => sync_call.ret = 248
       /\ Len(notion_patches) = 1
       /\ notion_patches[1].clicks_for_ctor
             = (IF sync_call.clicks_ok THEN NonSystemClicks(Len(kit_clicks))
                ELSE kit_stats.total_clicks)
       /\ notion_patches[1].ClickToOpenRate
             = ClickToOpenRate(notion_patches[1].clicks_for_ctor,
                               kit_stats.emails_opened)
       /\ sync_call.result = sync_call.patch_ok

\* the click fetch failed while the links hold another count than
\* total_clicks, and the sync succeeded with total_clicks in the ratio
C12_Witness ==
    /\ StatsFetched
    /\ ~sync_call.clicks_ok
    /\ sync_call.result
    /\ kit_stats.emails_opened = MaxCount
    /\ kit_stats.total_clicks = 2
    /\ NonSystemClicks(Len(kit_clicks)) = 1
    /\ Len(notion_patches) = 1
    /\ notion_patches[1].ClickToOpenRate * MaxCount >= 2 * FracScale - MaxCount

\* C13: the patch carries recipients, opens and clicks equal to the
\* provider's recipients, emails_opened and total_clicks (total_clicks also
\* when the content clicks are used for the ratio) and open_rate equal to
\* open_rate_pct / 100 at 4-decimal precision; {100, 20, 5, 20.0} without
\* content clicks gives {100, 20, 5, 0.2, 0.25} and 18.09 gives 0.1809.
C13_PatchCarriesSnapshot ==
    \A k \in DOMAIN notion_patches :
       LET p == notion_patches[k]
           n == kit_stats.open_rate * FracScale
           d == 100 * PctScale
           err == p.OpenRate * d - n
       IN  /\ p.Recipients = kit_stats.recipients
           /\ p.TotalOpens = kit_stats.emails_opened
           /\ p.TotalClicks = kit_stats.total_clicks
           /\ p.OpenRate \in {n \div d, n \div d + 1}
           /\ 2 * err <= d /\ 2 * err >= 0 - d
           /\ (kit_stats.open_rate = 18090) => p.OpenRate = 1809
           /\ (kit_stats = CampaignStats /\ ~sync_call.clicks_ok)
                 => /\ p.Recipients = 100 /\ p.TotalOpens = 20 /\ p.TotalClicks = 5
                    /\ p.OpenRate = 2000 /\ p.ClickToOpenRate = 2500

\* the campaign snapshot was patched without content clicks, and its stored
\* click count is not the count used for the ratio when content clicks exist
C13_Witness ==
    /\ StatsFetched
    /\ kit_stats = CampaignStats
    /\ ~sync_call.clicks_ok
    /\ NonSystemClicks(Len(kit_clicks)) # kit_stats.total_clicks
    /\ Len(notion_patches) = 1
    /\ notion_patches[1].OpenRate = 2000
    /\ notion_patches[1].ClickToOpenRate = 2500

---------------------------------------------------------------------------
(* Properties of the batch loops *)

Positions(n) == [k \in 1..n |-> k]

\* the loop of the send job has handled the first cursor - 1 pages of the
\* query result, each once and in order, and has counted each of them
SendLoopInOrder ==
    pc = "loop" =>
       /\ cursor \in 1..(Len(ready_emails) + 1)
       /\ processed = SubSeq(ready_emails, 1, cursor - 1)
       /\ success_count + failure_count = cursor - 1

\* the same for the stats job, whose counters stay after the loop
SyncLoopInOrder ==
    /\ spc = "loop" =>
          /\ sync_cursor \in 1..(Len(sent_emails) + 1)
          /\ synced = Positions(sync_cursor - 1)
          /\ sync_success_count + sync_failure_count = sync_cursor - 1
    /\ spc = "done" =>
          /\ synced = Positions(Len(sent_emails))
          /\ sync_success_count + sync_failure_count = Len(sent_emails)

\* C14: for every batch of n documents and every pattern of failures (a
\* false result or an exception) the loop handles each document once, in
\* query order, one after the other, does not stop at a failing document,
\* terminates, and ends with success_count + failure_count = n.
C14_BatchCompletes ==
    /\ [](SendLoopInOrder /\ SyncLoopInOrder)
    /\ (pc = "loop") ~> (pc = "loop" /\ cursor = Len(ready_emails) + 1
                            /\ success_count + failure_count = Len(ready_emails))
    /\ (pc = "loop") ~> (pc = "idle")
    /\ (spc = "loop") ~> (spc = "done")

\* a batch of two pages: the first failed at the POST, the second succeeded,
\* and the loop is at its end
C14_Witness ==
    /\ pc = "loop"
    /\ Len(ready_emails) = 2
    /\ cursor = 3
    /\ processed = <<1, 2>>
    /\ Len(requests) = 2
    /\ requests[1].page = 1 /\ ~requests[1].created
    /\ last.page = 2 /\ last.result
    /\ success_count = 1 /\ failure_count = 1

\* the call ended at a validation of the page: no subject (503), no publish
\* date (507), a date without a time (515), a past date (533), a date that
\* does not parse or compare (540), or an audience of which no name is in
\* the provider's lists (577 without a creation request, every lookup
\* answered)
ValidationReject(call) ==
    \/ call.ret \in {503, 507, 515, 533, 540}
    \/ /\ call.ret = 577
       /\ \A k \in DOMAIN call.effects : call.effects[k].op # "create"
       /\ \A i \in DOMAIN pages[call.page].segments :
             i \in call.env.tag_ok /\ i \in call.env.seg_ok

\* C15: a document rejected for a validation reason is recorded as a skip
\* and not as a failure: it does not increase the batch's failure count.
C15_SkipNotCounted ==
    [][(pc = "loop" /\ cursor' = cursor + 1 /\ ValidationReject(last'))
          => failure_count' = failure_count]_vars

---------------------------------------------------------------------------
(* Properties of the render pass under failing relay calls *)

\* the positions among the first n blocks whose relay call failed
FailedUploads == {uploads[k].block : k \in {j \in DOMAIN uploads : ~uploads[j].ok}}

\* the indices of parts that stay when the fragments of the blocks in
\* dropped are taken out (the list markers appended at a block stay)
KeptParts(parts, srcs, dropped) ==
    {k \in DOMAIN parts : IsMarker(parts[k]) \/ srcs[k] \notin dropped}

\* parts restricted to the indices in keep, in order
RECURSIVE Restrict(_, _, _)
Restrict(parts, keep, k) ==
    IF k > Len(parts) THEN <<>>
    ELSE (IF k \in keep THEN <<parts[k]>> ELSE <<>>) \o Restrict(parts, keep, k + 1)

\* the render of the same blocks with every relay call succeeding
AllRelayed(blks) == blocks_to_html(blks, [i \in UploadPositions(blks) |-> "cdn"])

\* C16: for every block sequence and every set of failing relay calls the
\* render pass completes; an image block whose relay call failed contributes
\* no fragment, every other fragment is present in document order as it
\* would be had the relay succeeded, and the image counter advances by one
\* for each image block with a source URL.
C16_FailedUploadOnlyDropsImage ==
    /\ (rpc = "loop" /\ idx \in FailedUploads) => ENABLED NextRender
    /\ rpc = "loop" => idx <= Len(blocks)
    /\ image_counter = Cardinality(UploadPositions(SubSeq(blocks, 1, idx)))
    /\ Len(uploads) = image_counter
    /\ \A k \in DOMAIN uploads : uploads[k].count = k
    /\ \A k \in DOMAIN html_parts :
          part_src[k] \in FailedUploads => IsMarker(html_parts[k])
    /\ rpc = "done" =>
          LET ref  == AllRelayed(blocks)
              keep == KeptParts(ref.html_parts, ref.part_src, FailedUploads)
          IN  /\ html_parts = Restrict(ref.html_parts, keep, 1)
              /\ part_src = Restrict(ref.part_src, keep, 1)

\* a failed relay call between a list and a paragraph: the render is done,
\* the second image was relayed and numbered 2
C16_Witness ==
    /\ rpc = "done"
    /\ Len(blocks) = MaxBlocks
    /\ blocks[1].type = "bulleted_list_item" /\ blocks[1].rich_text # <<>>
    /\ blocks[2].type = "image"
    /\ blocks[3].type = "image"
    /\ Len(uploads) = 2
    /\ ~uploads[1].ok /\ uploads[2].ok /\ uploads[2].count = 2
    /\ blocks[MaxBlocks].type = "paragraph" /\ blocks[MaxBlocks].rich_text # <<>>

---------------------------------------------------------------------------
(* Properties of rich_text_to_html *)

StyleTag ==
    [bold |-> "strong", italic |-> "em", strikethrough |-> "s",
     underline |-> "u", code |-> "code"]

\* content inside the markers of the set flags, the flags taken in the given
\* order from the outermost to the innermost
RECURSIVE Nested(_, _, _)
Nested(order, annotations, content) ==
    IF order = <<>> THEN content
    ELSE LET inner == Nested(Tail(order), annotations, content)
             tag   == StyleTag[Head(order)]
         IN  IF annotations[Head(order)]
             THEN <<"<" \o tag \o ">">> \o inner \o <<"</" \o tag \o ">">>
             ELSE inner

\* one span with its styles nested in the given order and the link, if any,
\* around them
SpanNested(order, text_obj) ==
    LET body == Nested(order, text_obj.annotations, <<text_obj.plain_text>>)
    IN  IF text_obj.href = "" THEN body
        ELSE <<"<a href>", text_obj.href, "<a body>">> \o body \o <<"</a>">>

\* the first n spans, each nested on its own, one after the other
RECURSIVE SpansNested(_, _, _)
SpansNested(order, spans, n) ==
    IF n = 0 THEN <<>>
    ELSE SpansNested(order, spans, n - 1) \o SpanNested(order, spans[n])

\* C17 (as stated): the style markers of a span are nested in the order
\* bold, italic, strikethrough, underline, code from the outermost to the
\* innermost; spans are rendered independently and concatenated in sequence
\* order, the empty span list giving the empty string.
C17_BoldOutermost ==
    rt_html = SpansNested(<<"bold", "italic", "strikethrough", "underline", "code">>,
                       rt_array, rt_pos)

\* C17 (amended): the style markers of a span are nested in the order code,
\* underline, strikethrough, italic, bold from the outermost to the
\* innermost (bold is applied first, code last, the link around all of
\* them); spans are rendered independently and concatenated in sequence
\* order, the empty span list giving the empty string.
C17_CodeOutermost ==
    /\ rt_html = SpansNested(<<"code", "underline", "strikethrough", "italic", "bold">>,
                          rt_array, rt_pos)
    /\ (rtpc = "done" /\ rt_array = <<>>) => rt_html = <<>>
    /\ rtpc = "done" => rt_pos = Len(rt_array)

\* a span with every style and a linked span with one style were rendered
C17_Witness ==
    /\ rtpc = "done"
    /\ Len(rt_array) = 2
    /\ \A f \in DOMAIN NoAnnotations : rt_array[1].annotations[f]
    /\ rt_array[2].href # ""
    /\ rt_array[2].annotations.italic
    /\ rt_html = <<"<code>", "<u>", "<s>", "<em>", "<strong>", "a", "</strong>",
                "</em>", "</s>", "</u>", "</code>",
                "<a href>", "https://x", "<a body>", "<em>", "b", "</em>", "</a>">>

---------------------------------------------------------------------------
(* The order of the external effects of one process_email call *)

StageOf ==
    [blocks_fetch |-> 1, image_relay |-> 2, tag_lookup |-> 3, segment_lookup |-> 3,
     create |-> 4, patch |-> 5]

EffectsOf(op) == {k \in DOMAIN last.effects : last.effects[k].op = op}

\* the page of the latest call does not pass the subject and schedule checks
RejectedBeforeFetch ==
    LET page == pages[last.page] IN
    \/ page.sl1 = "" /\ page.name = ""
    \/ page.publish_date.kind # "aware"
    \/ ScheduledInstant(last.page) < last.now

\* C18: the external effects of one process_email call occur in the order
\* block fetch, image-relay calls, tag/segment lookups, broadcast creation,
\* patch-back; a call stopped at a stage issues no call of a later stage: a
\* page skipped by the subject or schedule checks causes no effect at all,
\* and a patch is issued only after a creation that succeeded.
C18_EffectsInStageOrder ==
    last.page # 0 =>
       LET e == last.effects IN
       /\ \A j, k \in DOMAIN e : j < k => StageOf[e[j].op] <= StageOf[e[k].op]
       /\ RejectedBeforeFetch => (e = <<>> /\ LastRequests = {})
       /\ ~RejectedBeforeFetch =>
             /\ Cardinality(EffectsOf("blocks_fetch")) = 1
             /\ e[1].op = "blocks_fetch"
             /\ (e[1].id = 0 \/ pages[last.page].blocks = <<>>) => Len(e) = 1
             /\ Len(e) > 1 =>
                   Cardinality(EffectsOf("image_relay"))
                      = Cardinality(UploadPositions(pages[last.page].blocks))
       /\ Cardinality(EffectsOf("create")) <= 1
       /\ Cardinality(EffectsOf("patch")) <= 1
       /\ \A k \in EffectsOf("create") :
             /\ e[k].id = 0 => k = Len(e)
             /\ (~AudienceIsEveryone(last.page))
                   => \E j \in 1..(k - 1) : IsLookup(e[j]) /\ e[j].id # 0
       /\ \A k \in EffectsOf("patch") :
             k > 1 /\ e[k - 1].op = "create" /\ e[k - 1].id # 0

\* a call that went through every stage: fetch, a relay call, two lookups,
\* creation and patch
C18_Witness ==
    /\ last.page # 0
    /\ EffectsOf("image_relay") # {}
    /\ EffectsOf("tag_lookup") # {}
    /\ EffectsOf("segment_lookup") # {}
    /\ EffectsOf("create") # {}
    /\ EffectsOf("patch") # {}
    /\ last.result

\* C19: for a schedule value that holds a time of day and parses as a
\* timestamp, with or without a UTC offset, the outcome is decided by the
\* comparison with now in UTC alone: skip_past (return at 533) when it is
\* earlier than now, proceed otherwise; skip_invalid (return at 540) only
\* for a value that does not parse.
C19_GateComparesOnly ==
    (last.page # 0 /\ last.ret # 503) =>
       LET pd == pages[last.page].publish_date IN
       /\ pd.kind \in {"aware", "naive"} =>
             IF ScheduledInstant(last.page) < last.now
             THEN last.ret = 533
             ELSE last.ret \notin {507, 515, 533, 540}
       /\ last.ret = 540 => pd.kind = "garbage"

---------------------------------------------------------------------------
(* Empty containers in the render *)

\* the block is text-bearing and its composed text is empty
EmptyText(block) ==
    block.type \in DOMAIN TextTag /\ rich_text_to_html(block.rich_text) = <<>>

\* C20: a text-bearing block whose composed text is empty contributes no
\* markup at all, so the output holds no empty container: no list open
\* marker is immediately followed by its close marker.
C20_NoEmptyContainer ==
    /\ \A k \in DOMAIN html_parts :
          (part_src[k] \in DOMAIN blocks /\ EmptyText(blocks[part_src[k]]))
             => IsMarker(html_parts[k])
    /\ \A k \in 1..(Len(html_parts) - 1) :
          \A t \in ListKinds :
             ~(html_parts[k] = OpenOf[t] /\ html_parts[k + 1] = CloseOf[t])


---------------------------------------------------------------------------
(* A page whose broadcast was created and patched back *)

\* a creation request for page d is issued in the step
CreationRequested(d) ==
    /\ Len(requests') = Len(requests) + 1
    /\ requests'[Len(requests')].page = d

Matches(d, result) == \E k \in DOMAIN result : result[k] = d

\* C21: once a page's broadcast creation and patch-back have both succeeded,
\* the page has the status "Scheduled & Sent" and holds the broadcast's id,
\* the query for "Ready to Send" pages does not return it, and no creation
\* request is issued for it again, in this run or in a later one.
C21_SentPageIsLeftAlone ==
    [][\A d \in PageIds :
          completed'[d] # 0 =>
             /\ status'[d] = "Scheduled & Sent"
             /\ kit_broadcast_id'[d] = completed'[d]
             /\ ~Matches(d, query_ready_emails(status', TRUE))
             /\ completed[d] # 0 =>
                   /\ ~CreationRequested(d)
                   /\ created'[d] = created[d]
                   /\ completed'[d] = completed[d]]_vars

\* a later run is processing the pages left while a page completed by an
\* earlier run is not among them
C21_Witness ==
    /\ runs = 2
    /\ pc = "loop"
    /\ processed # <<>>
    /\ \E d \in PageIds :
          /\ completed[d] # 0
          /\ created[d] = 1
          /\ ~Matches(d, ready_emails)


---------------------------------------------------------------------------
(* The paginated listing of a page's child blocks *)

\* the number of blocks in the first k answers of a listing
RECURSIVE ListedBy(_, _)
ListedBy(sizes, k) == IF k = 0 THEN 0 ELSE sizes[k] + ListedBy(sizes, k - 1)

\* C22: get_page_content asks for the pages of the listing in order, each
\* GET with the cursor the answer before it gave, until an answer reports no
\* more pages. When a GET fails nothing of what was fetched is used: the
\* call of process_email returns False at line 551 with no image relayed and
\* no broadcast requested, as it does for a page without blocks. A page
\* that is rendered is rendered from all of its child blocks, and the
\* content posted is that render.
C22_SentFromCompleteListing ==
    (last.page # 0 /\ last.gets # <<>>) =>
       LET all   == pages[last.page].blocks
           sizes == last.env.listing.sizes
           g     == last.gets
           n     == Len(g)
       IN  /\ n <= Len(sizes)
           /\ \A k \in 1..n : g[k].start_cursor = ListedBy(sizes, k - 1)
           /\ \A k \in 1..(n - 1) : g[k].ok /\ ListedBy(sizes, k) < Len(all)
           /\ g[n].ok => ListedBy(sizes, n) = Len(all)
           /\ (~g[n].ok \/ all = <<>>) =>
                 /\ last.ret = 551
                 /\ ~last.result
                 /\ Len(last.effects) = 1
                 /\ LastRequests = {}
           /\ (g[n].ok /\ all # <<>>) =>
                 /\ last.ret # 551
                 /\ Cardinality(EffectsOf("image_relay"))
                       = Cardinality(UploadPositions(all))
                 /\ \A r \in LastRequests :
                       requests[r].content
                          = JoinLines(blocks_to_html(all, last.env.relay).html_parts)

\* a page of three blocks listed one block at a time, and sent
C22_Witness ==
    /\ last.page # 0
    /\ Len(pages[last.page].blocks) = 3
    /\ Len(last.gets) = 3
    /\ last.gets[3].ok
    /\ last.gets[3].start_cursor = 2
    /\ last.ret = 588
    /\ LastRequests # {}

====
